---------------------------- MODULE Spec2Model ----------------------------
(***************************************************************************)
(* Model of src/llamafactory/data/processors/processor_utils.py:           *)
(*   - search_for_fit / greedy_knapsack (the capacity packer), stepped at  *)
(*     statement granularity, driven by a caller that may call a second    *)
(*     time (on the same list object, or on a fresh copy of the same       *)
(*     sizes with a larger capacity);                                      *)
(*   - preprocess_video / read_video_pyav (frame sampling).                *)
(* Python lists are sequences; Python's 0-based index k is position k+1.   *)
(***************************************************************************)
EXTENDS Integers, Sequences, FiniteSets

VARIABLES
    numbers,             \* the caller's list object, mutated in place
    capacity,            \* the capacity argument of the running call
    knapsacks,           \* local: closed bins, in closing order
    current_knapsack,    \* local: the bin being filled (last closed bin after line 49)
    remaining_capacity,  \* local
    index,               \* local: result of the last search_for_fit
    pc,                  \* position in greedy_knapsack
    input,               \* ghost: contents of the list when the call started
    call_kind,           \* ghost: "first", "same_list" or "larger_capacity"
    first_bins,          \* ghost: number of bins the first call returned
    first_capacity,      \* ghost: capacity of the first call
    total_frames,        \* container.streams.video[0].frames
    indices,             \* the sampled frame indices
    frames,              \* read_video_pyav's local list (frames named by number)
    frame_no,            \* the enumerate counter i of the decode loop
    vpc                  \* position in preprocess_video / read_video_pyav

packVars == <<numbers, capacity, knapsacks, current_knapsack, remaining_capacity,
              index, pc, input, call_kind, first_bins, first_capacity>>
videoVars == <<total_frames, indices, frames, frame_no, vpc>>
vars == <<packVars, videoVars>>

---------------------------------------------------------------------------
(* Bounds of the model *)

MaxLen == 4          \* longest input list of Spec
MaxSize == 3         \* largest item size of Spec
MaxCapacity == 4     \* largest capacity of a first call of Spec
FairMaxLen == 3      \* longest input list of FairSpec
MaxIdleBins == 2     \* bins beyond the item count before a runaway loop is cut
MonoMaxLen == 10     \* longest input list of MonoSpec
MaxFrames == 16      \* largest reported frame count of VideoSpec

Sizes == 0..MaxSize
Capacities == (-1)..MaxCapacity
MonoSizes == {5, 6, 8, 14}
MonoCapacities == 14..27

(* Program constants *)
NotFound == -1
NumSamples == 8

---------------------------------------------------------------------------
(* Helpers over sequences *)

Range(s) == {s[k] : k \in DOMAIN s}

RECURSIVE SumSeq(_)
SumSeq(s) == IF s = <<>> THEN 0 ELSE Head(s) + SumSeq(Tail(s))

RECURSIVE Flatten(_)
Flatten(ss) == IF ss = <<>> THEN <<>> ELSE Head(ss) \o Flatten(Tail(ss))

Count(s, x) == Cardinality({k \in DOMAIN s : s[k] = x})

SeqsUpTo(n, S) == UNION {[1..m -> S] : m \in 0..n}

RECURSIVE NonDecreasing(_, _)
NonDecreasing(n, S) ==
    IF n = 0 THEN {<<>>}
    ELSE LET shorter == NonDecreasing(n - 1, S)
             longest == {t \in shorter : Len(t) = n - 1}
             fits == {q \in longest \X S : q[1] = <<>> \/ q[1][Len(q[1])] <= q[2]}
         IN shorter \cup {Append(q[1], q[2]) : q \in fits}

IsSorted(s) == \A k \in 1..(Len(s) - 1) : s[k] <= s[k + 1]

---------------------------------------------------------------------------
(* list.sort(): ascending insertion sort *)

RECURSIVE Insert(_, _)
Insert(x, s) ==
    IF s = <<>> THEN <<x>>
    ELSE IF x <= Head(s) THEN <<x>> \o s
    ELSE <<Head(s)>> \o Insert(x, Tail(s))

RECURSIVE SortAsc(_)
SortAsc(s) == IF s = <<>> THEN <<>> ELSE Insert(Head(s), SortAsc(Tail(s)))

(* bisect.bisect (bisect_right): binary search over a[lo..hi), 0-based *)
RECURSIVE BisectRight(_, _, _, _)
BisectRight(a, x, lo, hi) ==
    IF lo >= hi THEN lo
    ELSE LET mid == (lo + hi) \div 2
         IN IF x < a[mid + 1] THEN BisectRight(a, x, lo, mid)
            ELSE BisectRight(a, x, mid + 1, hi)

(* bisect.bisect_left: the insertion point before any equal elements *)
RECURSIVE BisectLeft(_, _, _, _)
BisectLeft(a, x, lo, hi) ==
    IF lo >= hi THEN lo
    ELSE LET mid == (lo + hi) \div 2
         IN IF a[mid + 1] < x THEN BisectLeft(a, x, mid + 1, hi)
            ELSE BisectLeft(a, x, lo, mid)

(* variant: bisect_left in place of bisect *)
bisect_left(a, x) == BisectLeft(a, x, 0, Len(a))

bisect(a, x) == BisectRight(a, x, 0, Len(a))

(* variant: only numbers strictly below the capacity count as fitting *)
search_for_fit_strict(nums, cap) ==
    LET idx == bisect_left(nums, cap)
    IN IF idx = 0 THEN NotFound ELSE idx - 1

(* search_for_fit: 0-based index of the largest number that fits, or -1 *)
search_for_fit(nums, cap) ==
    LET idx == bisect(nums, cap)
    IN IF idx = 0 THEN NotFound ELSE idx - 1

(* numbers[index] *)
ItemAt(nums, idx) == nums[idx + 1]

(* variant: pop() of the wrong end of the list *)
PopFirst(nums, idx) == Tail(nums)

(* the list after numbers.pop(index) *)
Pop(nums, idx) == SubSeq(nums, 1, idx) \o SubSeq(nums, idx + 2, Len(nums))

(* variant: the remaining capacity is not updated *)
DeductNothing(remaining, size) == remaining

(* variant: one unit of padding is charged per item *)
DeductWithPadding(remaining, size) == remaining - size - 1

(* remaining_capacity -= numbers[index] *)
Deduct(remaining, size) == remaining - size

(* variant: the loop stops with one item left *)
LoopConditionOffByOne(nums) == Len(nums) > 1

(* the test of `while numbers:` *)
LoopCondition(nums) == nums # <<>>

---------------------------------------------------------------------------
(* greedy_knapsack, one action per statement group *)

PackerIdle ==
    /\ numbers = <<>> /\ capacity = 0 /\ knapsacks = <<>>
    /\ current_knapsack = <<>> /\ remaining_capacity = 0 /\ index = NotFound
    /\ pc = "idle" /\ input = <<>> /\ call_kind = "first"
    /\ first_bins = 0 /\ first_capacity = 0

VideoIdle ==
    /\ total_frames = 0 /\ indices = <<>> /\ frames = <<>>
    /\ frame_no = 0 /\ vpc = "idle"

(* the caller hands a list and a capacity to greedy_knapsack; the locals,
   unbound until their first assignment, are shown as <<>>, 0 and -1 *)
CallWith(lists, caps) ==
    /\ numbers \in lists
    /\ capacity \in caps
    /\ input = numbers
    /\ knapsacks = <<>> /\ current_knapsack = <<>>
    /\ remaining_capacity = 0 /\ index = NotFound
    /\ pc = "call" /\ call_kind = "first"
    /\ first_bins = 0 /\ first_capacity = 0

Init == CallWith(SeqsUpTo(MaxLen, Sizes), Capacities) /\ VideoIdle

MonoInit == CallWith(NonDecreasing(MonoMaxLen, MonoSizes), MonoCapacities) /\ VideoIdle

(* lines 34-35: numbers.sort(); knapsacks = [] *)
Sort ==
    /\ pc = "call"
    /\ numbers' = SortAsc(numbers)
    /\ knapsacks' = <<>>
    /\ pc' = "outer"
    /\ UNCHANGED <<capacity, current_knapsack, remaining_capacity, index, input,
                   call_kind, first_bins, first_capacity, videoVars>>

(* lines 37-39: the outer test succeeds, a new bin is opened *)
OpenBin ==
    /\ pc = "outer"
    /\ LoopCondition(numbers)
    /\ current_knapsack' = <<>>
    /\ remaining_capacity' = capacity
    /\ pc' = "search"
    /\ UNCHANGED <<numbers, capacity, knapsacks, index, input,
                   call_kind, first_bins, first_capacity, videoVars>>

(* lines 37, 51: the outer test fails, the call returns knapsacks *)
Return ==
    /\ pc = "outer"
    /\ ~LoopCondition(numbers)
    /\ pc' = "done"
    /\ UNCHANGED <<numbers, capacity, knapsacks, current_knapsack, remaining_capacity,
                   index, input, call_kind, first_bins, first_capacity, videoVars>>

(* line 42 *)
Search ==
    /\ pc = "search"
    /\ index' = search_for_fit(numbers, remaining_capacity)
    /\ pc' = "test"
    /\ UNCHANGED <<numbers, capacity, knapsacks, current_knapsack, remaining_capacity,
                   input, call_kind, first_bins, first_capacity, videoVars>>

(* lines 43, 46-47: an item fits and moves from the list into the bin *)
Place ==
    /\ pc = "test"
    /\ index # NotFound
    /\ remaining_capacity' = Deduct(remaining_capacity, ItemAt(numbers, index))
    /\ current_knapsack' = Append(current_knapsack, ItemAt(numbers, index))
    /\ numbers' = Pop(numbers, index)
    /\ pc' = "search"
    /\ UNCHANGED <<capacity, knapsacks, index, input,
                   call_kind, first_bins, first_capacity, videoVars>>

(* lines 43-44, 49: nothing fits, the bin is closed.  A loop that has closed
   MaxIdleBins more bins than there are items is spinning and is cut here. *)
CloseBin ==
    /\ pc = "test"
    /\ index = NotFound
    /\ Len(knapsacks) < Len(input) + MaxIdleBins
    /\ knapsacks' = Append(knapsacks, current_knapsack)
    /\ pc' = "outer"
    /\ UNCHANGED <<numbers, capacity, current_knapsack, remaining_capacity, index,
                   input, call_kind, first_bins, first_capacity, videoVars>>

(* a new call starts with its locals unbound, shown as in CallWith *)
FreshFrame ==
    /\ knapsacks' = <<>> /\ current_knapsack' = <<>>
    /\ remaining_capacity' = 0 /\ index' = NotFound

(* the caller calls again with the same list object and the same capacity *)
CallSameList ==
    /\ pc = "done"
    /\ call_kind = "first"
    /\ call_kind' = "same_list"
    /\ input' = numbers
    /\ first_bins' = Len(knapsacks)
    /\ first_capacity' = capacity
    /\ FreshFrame
    /\ pc' = "call"
    /\ UNCHANGED <<numbers, capacity, videoVars>>

LargerCapacities(c) == {c + 1, 2 * c} \ {c}

(* the caller packs a fresh copy of the same sizes with a larger capacity *)
CallLargerCapacity ==
    /\ pc = "done"
    /\ call_kind = "first"
    /\ call_kind' = "larger_capacity"
    /\ numbers' = input
    /\ \E c2 \in LargerCapacities(capacity) : c2 > capacity /\ capacity' = c2
    /\ first_bins' = Len(knapsacks)
    /\ first_capacity' = capacity
    /\ FreshFrame
    /\ pc' = "call"
    /\ UNCHANGED <<input, videoVars>>

Step == Sort \/ OpenBin \/ Return \/ Search \/ Place \/ CloseBin

Next == Step \/ CallSameList \/ CallLargerCapacity

Spec == Init /\ [][Next]_vars

FairInit == CallWith(SeqsUpTo(FairMaxLen, Sizes), Capacities) /\ VideoIdle

FairSpec == FairInit /\ [][Next]_vars /\ WF_vars(Step)

MonoSpec == MonoInit /\ [][Next]_vars

---------------------------------------------------------------------------
(* preprocess_video / read_video_pyav.  The decoder yields the frames
   0 .. total_frames - 1 in order; a decoded frame is named by its number. *)

(* len(np.arange(0, total, total / 8)) = ceil((total - 0) / (total / 8)) *)
ArangeLen(total) == ((total * NumSamples) + (total - 1)) \div total

(* np.arange(0, total, total / 8).astype(int): k * (total / 8), truncated *)
SampleIndices(total) ==
    [k \in 1..ArangeLen(total) |-> ((k - 1) * total) \div NumSamples]

VideoInit ==
    /\ total_frames \in 1..MaxFrames
    /\ indices = <<>> /\ frames = <<>> /\ frame_no = 0
    /\ vpc = "open"
    /\ PackerIdle

(* lines 69-72, 104-107: the indices are computed and the decode loop starts *)
Sample ==
    /\ vpc = "open"
    /\ indices' = SampleIndices(total_frames)
    /\ frames' = <<>>
    /\ frame_no' = 0
    /\ vpc' = "decode"
    /\ UNCHANGED <<total_frames, packVars>>

start_index == indices[1]
end_index == indices[Len(indices)]

(* line 111: i >= start_index and i in indices *)
Selected(i) == i >= start_index /\ i \in Range(indices)

(* lines 108-112: one iteration of the decode loop *)
DecodeFrame ==
    /\ vpc = "decode"
    /\ frame_no < total_frames
    /\ ~(frame_no > end_index)
    /\ frames' = IF Selected(frame_no) THEN Append(frames, frame_no) ELSE frames
    /\ frame_no' = frame_no + 1
    /\ UNCHANGED <<total_frames, indices, vpc, packVars>>

(* lines 108-110, 113: the loop ends (break, or the decoder is exhausted)
   and the collected frames are stacked *)
Stack ==
    /\ vpc = "decode"
    /\ (frame_no >= total_frames \/ frame_no > end_index)
    /\ vpc' = "stacked"
    /\ UNCHANGED <<total_frames, indices, frames, frame_no, packVars>>

VideoNext == Sample \/ DecodeFrame \/ Stack

VideoSpec == VideoInit /\ [][VideoNext]_vars

---------------------------------------------------------------------------
(* Properties *)

Running == pc \in {"outer", "search", "test", "done"}
BinOpen == pc \in {"search", "test"}
WellFormed == capacity > 0 /\ \A x \in Range(input) : x <= capacity
HasOversized == \E x \in Range(input) : x > capacity

(* the items that have left the list: closed bins, then the open bin *)
Placed == Flatten(knapsacks) \o (IF BinOpen THEN current_knapsack ELSE <<>>)

SameMultiset(s, t) ==
    \A x \in Range(s) \cup Range(t) : Count(s, x) = Count(t, x)

(* C1: conservation.  At every step of a call the items of the list, of the
   bin being filled and of the closed bins together are exactly the input
   items (as multisets), and on return the bins alone are. *)
C1_Conservation ==
    /\ Running => SameMultiset(input, numbers \o Placed)
    /\ pc = "done" => SameMultiset(input, Flatten(knapsacks))

C1_Witness ==
    /\ pc = "done" /\ call_kind = "first"
    /\ Len(input) >= 3 /\ Len(knapsacks) >= 2
    /\ \E k \in DOMAIN knapsacks : Len(knapsacks[k]) >= 2

(* C2: capacity bound.  With a positive capacity every closed bin sums to at
   most the capacity, and while a bin is filled remaining_capacity >= 0 and
   sum(current bin) + remaining_capacity = capacity. *)
C2_CapacityBound ==
    (capacity > 0 /\ Running) =>
        /\ \A k \in DOMAIN knapsacks : SumSeq(knapsacks[k]) <= capacity
        /\ BinOpen => /\ remaining_capacity >= 0
                      /\ SumSeq(current_knapsack) + remaining_capacity = capacity

C2_Witness ==
    /\ pc = "done" /\ capacity > 0
    /\ \E k \in DOMAIN knapsacks :
          Len(knapsacks[k]) >= 2 /\ SumSeq(knapsacks[k]) = capacity
    /\ \E k \in DOMAIN knapsacks : SumSeq(knapsacks[k]) < capacity

(* C3: termination on well-formed input.  When capacity > 0 and every size
   is <= capacity, every closed bin holds an item, at most n bins are
   closed, and the call returns. *)
C3_Termination ==
    /\ []((WellFormed /\ Running) =>
             /\ Len(knapsacks) <= Len(input)
             /\ \A k \in DOMAIN knapsacks : knapsacks[k] # <<>>)
    /\ ((WellFormed /\ pc = "call") ~> (pc = "done"))

C3_Witness ==
    /\ pc = "done" /\ WellFormed /\ call_kind = "first"
    /\ Len(input) >= 3 /\ Len(knapsacks) = Len(input)

(* C4 (as claimed): with a positive capacity and an oversized item in the
   input, every bin that is closed holds an item, and on return each
   oversized item is alone in its bin. *)
C4_OversizedPlacedAlone ==
    (capacity > 0 /\ HasOversized /\ Running) =>
        /\ \A k \in DOMAIN knapsacks : knapsacks[k] # <<>>
        /\ pc = "done" =>
              \A k \in DOMAIN knapsacks : \A x \in Range(knapsacks[k]) :
                  x > capacity => knapsacks[k] = <<x>>

(* C5 (as claimed): a call with capacity <= 0 is rejected before any
   statement of the packing loop runs, and never returns normally. *)
C5_InvalidCapacityFailsFast ==
    capacity <= 0 => ~Running

(* the greatest 0-based index whose number is <= cap, or -1 *)
GreatestFit(nums, cap) ==
    LET fit == {k \in 0..(Len(nums) - 1) : nums[k + 1] <= cap}
    IN IF fit = {} THEN NotFound
       ELSE CHOOSE k \in fit : \A m \in fit : m <= k

(* C6: search_for_fit against its reference.  On the sorted list the result
   is the greatest index whose number is <= capacity, and it is -1 exactly
   when the list is empty or its smallest number exceeds the capacity. *)
C6_SearchForFit ==
    pc = "test" =>
        /\ IsSorted(numbers)
        /\ index = GreatestFit(numbers, remaining_capacity)
        /\ (index = NotFound) <=>
              (numbers = <<>> \/ numbers[1] > remaining_capacity)

C6_Witness ==
    /\ pc = "test" /\ index >= 1 /\ index + 1 < Len(numbers)
    /\ ItemAt(numbers, index - 1) = ItemAt(numbers, index)

FirstWellFormed ==
    first_capacity > 0 /\ \A x \in Range(input) : x <= first_capacity

SecondDone == pc = "done" /\ call_kind = "larger_capacity"

(* C7 (as claimed): packing the same sizes with a larger capacity never
   returns more bins. *)
C7_Monotone ==
    (SecondDone /\ FirstWellFormed) => Len(knapsacks) <= first_bins

(* C7 (amended): with a larger capacity c2 the call returns k2 bins where
   k2 <= 1 or k2 * c2 < 2 * k1 * c1, for the k1 bins returned with c1; so
   k2 < 2 * k1, and k2 <= k1 when k2 <= 1 or c2 >= 2 * c1. *)
C7_BoundedGrowth ==
    (SecondDone /\ FirstWellFormed) =>
        /\ Len(knapsacks) <= 1 => Len(knapsacks) <= first_bins
        /\ Len(knapsacks) >= 2 =>
              /\ Len(knapsacks) * capacity < 2 * first_bins * first_capacity
              /\ Len(knapsacks) < 2 * first_bins
        /\ capacity >= 2 * first_capacity => Len(knapsacks) <= first_bins

C7_Witness ==
    /\ SecondDone /\ FirstWellFormed
    /\ capacity = first_capacity + 1
    /\ Len(knapsacks) = first_bins + 1

(* C8: side effect on the argument.  The list is sorted once the call runs,
   no step of the call changes the capacity, the list is empty on return,
   and a second call on the same list object returns no bins. *)
C8_InputDrained ==
    /\ [](Running => IsSorted(numbers))
    /\ [](pc = "done" => numbers = <<>>)
    /\ []((pc = "done" /\ call_kind = "same_list") => knapsacks = <<>>)
    /\ [][Step => capacity' = capacity]_vars

C8_Witness ==
    /\ pc = "done" /\ call_kind = "same_list"
    /\ first_bins >= 2 /\ knapsacks = <<>>

(* C9 (as claimed): the clip holds exactly 8 frames, the decoded frames
   floor(k * N / 8) for k = 0..7. *)
C9_EightFrames ==
    vpc = "stacked" =>
        /\ Len(frames) = NumSamples
        /\ \A k \in 1..NumSamples :
              frames[k] = ((k - 1) * total_frames) \div NumSamples

(* C10: greedy maximality.  On well-formed input no item that is still in
   the list, in the open bin or in a later bin fits the space left in a
   closed bin, and two distinct closed bins together exceed the capacity. *)
C10_GreedyMaximal ==
    (WellFormed /\ Running) =>
        \A k \in DOMAIN knapsacks :
            LET free == capacity - SumSeq(knapsacks[k])
                later == Flatten(SubSeq(knapsacks, k + 1, Len(knapsacks)))
                            \o (IF BinOpen THEN current_knapsack ELSE <<>>)
                            \o numbers
            IN /\ \A x \in Range(later) : x > free
               /\ \A m \in DOMAIN knapsacks :
                     k < m => SumSeq(knapsacks[k]) + SumSeq(knapsacks[m]) > capacity

C10_Witness ==
    /\ pc = "done" /\ WellFormed /\ call_kind = "first"
    /\ Len(knapsacks) >= 3
    /\ \E k \in DOMAIN knapsacks : Len(knapsacks[k]) >= 2

=============================================================================
